---- MODULE Spec2Model ----
(***************************************************************************)
(* A model of text_redact.py: the term-redaction engine (redact_text),     *)
(* the document record builder (the page loop of extract_and_redact_text)  *)
(* and the batch runner (main / text_redact_pdf).                          *)
(*                                                                         *)
(* Text is a sequence of one-character strings.  SpecRedact explores       *)
(* redact_text over all small texts and term sequences; Spec explores one  *)
(* run of main() over all environments (directories, term file, PDFs,      *)
(* per-page extraction results, write outcomes).                           *)
(***************************************************************************)
EXTENDS Integers, Sequences, FiniteSets, TLC

\* ------------------------------------------------------------------ bounds
MaxTextLen == 3
MaxTerms == 2
MaxTermChars == 2
MaxLines == 2
MaxDocs == 2
MaxPages == 2

\* The characters texts and terms are drawn from: a letter in both cases that
\* does not occur in the marker ("b"/"B"), the character the marker begins
\* with ("["), and a character that is a metacharacter of the pattern language
\* and does not occur in the marker (".").
Alphabet == {"b", "B", "[", "."}

\* ------------------------------------------------------------------ state
VARIABLES
    \* redact_text(text, terms): the arguments, the returned text, and the
    \* position of the call
    text, terms, redacted_text, rpc,
    \* ghost: for every character of redacted_text, the 1-based position of the
    \* input character it is, or 0 for a character of an inserted marker
    origin,
    \* the environment of one run of main()
    input_dir_ok,       \* INPUT_DIR exists and is a directory
    output_dir,         \* "exists", "creatable" or "uncreatable"
    terms_file,         \* "ok", "missing" or "unreadable"
    \* main()
    pc,                 \* where the run is
    exit_status,        \* -1 while running, then the process exit status
    pdf_files,          \* the number of discovered PDFs; document d is the d-th
    idx,                \* the position of the for loop of line 142
    successful, failed,
    \* extract_and_redact_text / text_redact_pdf, for the current document
    pages,              \* the page texts page.get_text() will return
    page_num,           \* pages consumed by the loop of line 68
    full_text,
    is_none,            \* extract_and_redact_text returned None
    chunks,             \* f.write calls completed on the open output file
    \* the world, per document
    pdf_handle,         \* "none", "open" or "closed"
    out_handle,         \* "none", "open" or "closed"
    out_file,           \* -1: no file; n >= 0: a file holding n written chunks
    \* ghost, per document
    stage,              \* "None", "Discovered", "Extracted", "Redacted", "Written", "Failed"
    outcome             \* "pending", "success", "extraction_error", "blank", "write_error"

rvars == <<text, terms, redacted_text, rpc, origin>>

envvars == <<input_dir_ok, output_dir, terms_file>>

docvars == <<pages, page_num, full_text, is_none, chunks>>

worldvars == <<pdf_handle, out_handle, out_file>>

vars == <<text, terms, redacted_text, rpc, origin, input_dir_ok, output_dir, terms_file,
          pc, exit_status, pdf_files, idx, successful, failed, pages, page_num,
          full_text, is_none, chunks, pdf_handle, out_handle, out_file, stage, outcome>>

\* ------------------------------------------------------------------ strings
RECURSIVE StringsOfLen(_, _)
StringsOfLen(A, n) ==
    IF n = 0 THEN {<<>>}
    ELSE {Append(s, c) : s \in StringsOfLen(A, n - 1), c \in A}

StringsOver(A, n) == UNION {StringsOfLen(A, k) : k \in 0..n}

Strings(n) == StringsOver(Alphabet, n)

RECURSIVE SeqsOfLen(_, _)
SeqsOfLen(S, n) ==
    IF n = 0 THEN {<<>>}
    ELSE {<<x>> \o rest : x \in S, rest \in SeqsOfLen(S, n - 1)}

SeqsUpTo(S, n) == UNION {SeqsOfLen(S, k) : k \in 0..n}

\* Sequences of exactly n terms whose lengths sum to at most c.
RECURSIVE TermSeqsOfLen(_, _)
TermSeqsOfLen(n, c) ==
    IF n = 0 THEN {<<>>}
    ELSE UNION {{<<t>> \o rest : rest \in TermSeqsOfLen(n - 1, c - Len(t))} : t \in Strings(c)}

TermSeqs(n, c) == UNION {TermSeqsOfLen(k, c) : k \in 0..n}

\* ------------------------------------------------------------------ re module
\* line 57: the replacement string
MARKER == <<"[", "R", "E", "D", "A", "C", "T", "E", "D", "]">>

\* re.IGNORECASE compares characters by their lower-case form.
UpperToLower ==
    [c \in {"A", "B", "C", "D", "E", "R", "T"} |->
        CASE c = "A" -> "a" [] c = "B" -> "b" [] c = "C" -> "c" [] c = "D" -> "d"
          [] c = "E" -> "e" [] c = "R" -> "r" [] c = "T" -> "t"]

Lower(c) == IF c \in DOMAIN UpperToLower THEN UpperToLower[c] ELSE c

\* The characters re.escape() puts a backslash in front of.
SpecialChars ==
    {"(", ")", "[", "]", "{", "}", "?", "*", "+", "-", "|", "^", "$", "\\", ".",
     "&", "~", "#", " ", "\t", "\n", "\r", "\f"}

re_escape_identity(term) == term

\* re.escape(term): every special character is preceded by a backslash.
RECURSIVE re_escape(_)
re_escape(term) ==
    IF term = <<>> THEN <<>>
    ELSE (IF Head(term) \in SpecialChars THEN <<"\\", Head(term)>> ELSE <<Head(term)>>)
         \o re_escape(Tail(term))

\* The pattern compiler, for the patterns that reach it: a backslash followed
\* by a character is that literal character, an unescaped "." is any character
\* but a newline, anything else is a literal.  Each atom matches one character.
RECURSIVE Atoms(_)
Atoms(pattern) ==
    IF pattern = <<>> THEN <<>>
    ELSE IF Head(pattern) = "\\" /\ Len(pattern) >= 2
         THEN <<[kind |-> "lit", ch |-> pattern[2]]>> \o Atoms(Tail(Tail(pattern)))
    ELSE IF Head(pattern) = "."
         THEN <<[kind |-> "any", ch |-> "."]>> \o Atoms(Tail(pattern))
    ELSE <<[kind |-> "lit", ch |-> Head(pattern)]>> \o Atoms(Tail(pattern))

AtomMatches(atom, c, ignorecase) ==
    IF atom.kind = "any" THEN c # "\n"
    ELSE IF ignorecase THEN Lower(atom.ch) = Lower(c)
    ELSE atom.ch = c

\* Does the atom sequence match s at position pos (1-based)?
MatchAt(atoms, s, pos, ignorecase) ==
    /\ pos + Len(atoms) - 1 <= Len(s)
    /\ \A k \in 1..Len(atoms) : AtomMatches(atoms[k], s[pos + k - 1], ignorecase)

\* A scan that stops after the first match (re.sub with count=1).
FirstOnly(candidates, m, pos) ==
    LET ahead == {q \in candidates : q >= pos}
    IN IF ahead = {} THEN {} ELSE {CHOOSE x \in ahead : \A y \in ahead : x <= y}

\* Of the candidate positions, those a left-to-right scan takes: the leftmost
\* one at or after pos, then the leftmost one at or after its end, and so on.
RECURSIVE LeftmostNonOverlapping(_, _, _)
LeftmostNonOverlapping(candidates, m, pos) ==
    LET ahead == {q \in candidates : q >= pos}
    IN IF ahead = {} THEN {}
       ELSE LET q == CHOOSE x \in ahead : \A y \in ahead : x <= y
            IN {q} \cup LeftmostNonOverlapping(ahead, m, q + m)

\* The start positions of the matches re.sub replaces: leftmost first, each
\* search resuming where the previous match ended (non-overlapping).
FindAll(atoms, s, pos, ignorecase) ==
    LeftmostNonOverlapping(
        {q \in pos..(Len(s) - Len(atoms) + 1) : MatchAt(atoms, s, q, ignorecase)},
        Len(atoms), pos)

\* s from position pos on, with the span of length m at every position of
\* starts replaced by repl and everything between the spans kept.
RECURSIVE Replace(_, _, _, _, _)
Replace(s, starts, m, repl, pos) ==
    LET ahead == {q \in starts : q >= pos}
    IN IF ahead = {} THEN SubSeq(s, pos, Len(s))
       ELSE LET q == CHOOSE x \in ahead : \A y \in ahead : x <= y
            IN SubSeq(s, pos, q - 1) \o repl \o Replace(s, starts, m, repl, q + m)

\* re.sub(pattern, repl, string, flags) for a pattern of one-character atoms.
re_sub(pattern, repl, string, ignorecase) ==
    LET atoms == Atoms(pattern)
    IN Replace(string, FindAll(atoms, string, 1, ignorecase), Len(atoms), repl, 1)

IgnoreCaseInverted(cs) == cs

\* line 53: flags = 0 if case_sensitive else re.IGNORECASE
IgnoreCase(cs) == ~cs

\* ------------------------------------------------------------------ redact_text
\* re.sub with the empty pattern: the replacement before every character and
\* at the end.
RECURSIVE Interleave(_, _)
Interleave(repl, s) ==
    IF s = <<>> THEN repl ELSE repl \o <<Head(s)>> \o Interleave(repl, Tail(s))

\* The loop without filter(None, ...): the empty term reaches re.sub.
RedactOneNoFilter(current, term, cs) ==
    IF term = <<>> THEN Interleave(MARKER, current)
    ELSE re_sub(re_escape(term), MARKER, current, IgnoreCase(cs))

\* lines 55-57, one iteration of the loop over filter(None, terms)
RedactOne(current, term, cs) ==
    IF term = <<>> THEN current
    ELSE re_sub(re_escape(term), MARKER, current, IgnoreCase(cs))

RECURSIVE RedactAll(_, _, _)
RedactAll(current, ts, cs) ==
    IF ts = <<>> THEN current
    ELSE RedactAll(RedactOne(current, Head(ts), cs), Tail(ts), cs)

\* lines 47-59
redact_text(t, ts, cs) ==
    IF t = <<>> \/ ts = <<>> THEN t ELSE RedactAll(t, ts, cs)

\* The ghost counterpart of RedactOne: the same spans of `current` are cut out
\* of `org`, and the inserted marker characters have origin 0.
OriginOne(org, current, term, cs) ==
    IF term = <<>> THEN org
    ELSE LET atoms == Atoms(re_escape(term))
         IN Replace(org, FindAll(atoms, current, 1, IgnoreCase(cs)), Len(atoms),
                    [k \in 1..Len(MARKER) |-> 0], 1)

RECURSIVE OriginAll(_, _, _, _)
OriginAll(org, current, ts, cs) ==
    IF ts = <<>> THEN org
    ELSE OriginAll(OriginOne(org, current, Head(ts), cs),
                   RedactOne(current, Head(ts), cs), Tail(ts), cs)

\* line 47: the default of the parameter; line 77, the only call, passes none
case_sensitive == FALSE

\* ------------------------------------------------------------------ SpecRedact
Docs == 1..MaxDocs

\* The batch runner's variables before main() has done anything.
BatchIdle ==
    /\ pc = "start"
    /\ exit_status = -1
    /\ pdf_files = 0
    /\ idx = 0
    /\ successful = 0
    /\ failed = 0
    /\ pages = <<>>
    /\ page_num = 0
    /\ full_text = <<>>
    /\ is_none = FALSE
    /\ chunks = 0
    /\ pdf_handle = [d \in Docs |-> "none"]
    /\ out_handle = [d \in Docs |-> "none"]
    /\ out_file = [d \in Docs |-> -1]
    /\ stage = [d \in Docs |-> "None"]
    /\ outcome = [d \in Docs |-> "pending"]

RInit ==
    /\ text \in Strings(MaxTextLen)
    /\ terms \in TermSeqs(MaxTerms, MaxTermChars)
    /\ redacted_text = <<>>
    /\ origin = <<>>
    /\ rpc = "call"
    /\ input_dir_ok = TRUE
    /\ output_dir = "exists"
    /\ terms_file = "ok"
    /\ BatchIdle

\* lines 47-59: the call redact_text(text, terms)
Redact ==
    /\ rpc = "call"
    /\ redacted_text' = redact_text(text, terms, case_sensitive)
    /\ origin' = IF text = <<>> \/ terms = <<>>
                 THEN [k \in 1..Len(text) |-> k]
                 ELSE OriginAll([k \in 1..Len(text) |-> k], text, terms, case_sensitive)
    /\ rpc' = "done"
    /\ UNCHANGED <<text, terms, envvars, pc, exit_status, pdf_files, idx, successful,
                   failed, docvars, worldvars, stage, outcome>>

RNext == Redact

SpecRedact == RInit /\ [][RNext]_vars

\* ------------------------------------------------------------------ properties of redact_text
Range(f) == {f[k] : k \in DOMAIN f}

\* term occurs in s at position pos, literally and ignoring case
OccursAt(term, s, pos) ==
    /\ term # <<>>
    /\ pos >= 1
    /\ pos + Len(term) - 1 <= Len(s)
    /\ \A k \in 1..Len(term) : Lower(term[k]) = Lower(s[pos + k - 1])

OccursIn(term, s) == \E pos \in 1..Len(s) : OccursAt(term, s, pos)

\* An occurrence of term can share a character with an occurrence of m: one
\* lies within the other, or an end of term is the other end of m.
CanOverlap(term, m) ==
    /\ term # <<>>
    /\ \/ OccursIn(term, m)
       \/ OccursIn(m, term)
       \/ \E k \in 1..(Len(term) - 1) :
             /\ k <= Len(m)
             /\ \/ OccursAt(SubSeq(term, Len(term) - k + 1, Len(term)), m, 1)
                \/ OccursAt(SubSeq(term, 1, k), m, Len(m) - k + 1)

NoTermContainsMarker == \A i \in 1..Len(terms) : ~OccursIn(MARKER, terms[i])

NoTermOverlapsMarker == \A i \in 1..Len(terms) : ~CanOverlap(terms[i], MARKER)

\* No term is a substring of another, and no occurrences of two different
\* terms overlap in the text.
PairwiseNonOverlapping ==
    \A i, j \in 1..Len(terms) :
        i # j =>
            /\ terms[i] # <<>>
            /\ ~OccursIn(terms[i], terms[j])
            /\ \A p, q \in 1..Len(text) :
                   OccursAt(terms[i], text, p) /\ OccursAt(terms[j], text, q)
                       => \/ p + Len(terms[i]) <= q
                          \/ q + Len(terms[j]) <= p

Permuted(ts) == {[i \in 1..Len(ts) |-> ts[f[i]]] : f \in Permutations(1..Len(ts))}

Idempotent == redact_text(redacted_text, terms, case_sensitive) = redacted_text

OrderIndependent ==
    \A P \in Permuted(terms) : redact_text(text, P, case_sensitive) = redacted_text

\* C1 as stated: redacting the result again with the same terms changes
\* nothing, whenever no term contains the marker text.
C1_IdempotentUnlessTermContainsMarker ==
    (rpc = "done" /\ NoTermContainsMarker) => Idempotent

\* C1 amended: redacting the result again with the same terms changes nothing,
\* whenever no term can overlap the marker (ignoring case, no term lies within
\* the marker, contains it, ends with a beginning of it or begins with an end
\* of it).
C1_IdempotentUnlessTermOverlapsMarker ==
    (rpc = "done" /\ NoTermOverlapsMarker) => Idempotent

C1_Witness ==
    /\ rpc = "done"
    /\ NoTermOverlapsMarker
    /\ Len(terms) = 2
    /\ \A i \in 1..2 : OccursIn(terms[i], text)
    /\ redacted_text # text

\* C2 as stated: when the terms are pairwise non-overlapping, every
\* permutation of the term sequence gives the same redacted text.
C2_OrderIndependentIfNonOverlapping ==
    (rpc = "done" /\ PairwiseNonOverlapping) => OrderIndependent

\* C2 amended: when the terms are pairwise non-overlapping and no term can
\* overlap the marker, every permutation of the term sequence gives the same
\* redacted text.
C2_OrderIndependentIfNoMarkerOverlap ==
    (rpc = "done" /\ NoTermOverlapsMarker /\ PairwiseNonOverlapping) => OrderIndependent

C2_Witness ==
    /\ rpc = "done"
    /\ PairwiseNonOverlapping
    /\ NoTermOverlapsMarker
    /\ Len(terms) = 2
    /\ terms[1] # terms[2]
    /\ \A i \in 1..2 : OccursIn(terms[i], text)

\* The ghost variable is what it says: the characters of the result that come
\* from the input are the input's characters, in the input's order.
OriginSound ==
    /\ Len(origin) = Len(redacted_text)
    /\ \A k \in 1..Len(origin) :
          /\ origin[k] \in 0..Len(text)
          /\ origin[k] # 0 => redacted_text[k] = text[origin[k]]
          /\ origin[k] # 0 => \A l \in 1..(k - 1) : origin[l] < origin[k]

\* C3 as stated: no character of any occurrence of a term in the input text
\* is left in the result (no occurrence survives wholly or in part).
C3_NoOccurrenceSurvivesEvenInPart ==
    rpc = "done" =>
        \A i \in 1..Len(terms) : \A p \in 1..Len(text) :
            OccursAt(terms[i], text, p) =>
                \A k \in p..(p + Len(terms[i]) - 1) : k \notin Range(origin)

\* C3 amended: no occurrence of a term in the input text is left whole in the
\* result: every occurrence (matched literally, ignoring case) loses at least
\* one character to a marker; a text that is one term, in any case, becomes
\* the marker.
C3_NoOccurrenceSurvivesWhole ==
    rpc = "done" =>
        /\ OriginSound
        /\ \A i \in 1..Len(terms) : \A p \in 1..Len(text) :
              OccursAt(terms[i], text, p) =>
                  \E k \in p..(p + Len(terms[i]) - 1) : \A j \in 1..Len(origin) : origin[j] # k
        /\ (Len(terms) = 1 /\ Len(terms[1]) = Len(text) /\ OccursAt(terms[1], text, 1))
              => redacted_text = MARKER

C3_Witness ==
    /\ rpc = "done"
    /\ \E i \in 1..Len(terms) : \E p, q \in 1..Len(text) :
          /\ p < q
          /\ q < p + Len(terms[i])
          /\ OccursAt(terms[i], text, p)
          /\ OccursAt(terms[i], text, q)
          /\ terms[i] # SubSeq(text, p, p + Len(terms[i]) - 1)
    /\ \E k \in 1..Len(origin) : origin[k] # 0

\* C4: a text in which no term occurs (literally, ignoring case) is returned
\* unchanged; empty terms are skipped and "." is no wildcard.
C4_NonMatchingTextUnchanged ==
    (rpc = "done" /\ \A i \in 1..Len(terms) : ~OccursIn(terms[i], text))
        => redacted_text = text

C4_Witness ==
    /\ rpc = "done"
    /\ text = <<"b", "[">>
    /\ terms = << <<>>, <<"b", ".">> >>
    /\ redacted_text = text

\* ------------------------------------------------------------------ load_terms
Whitespace == {" ", "\t", "\n", "\r", "\f"}

RECURSIVE lstrip(_)
lstrip(s) == IF s # <<>> /\ Head(s) \in Whitespace THEN lstrip(Tail(s)) ELSE s

RECURSIVE rstrip(_)
rstrip(s) ==
    IF s # <<>> /\ s[Len(s)] \in Whitespace THEN rstrip(SubSeq(s, 1, Len(s) - 1)) ELSE s

\* str.strip()
strip(s) == rstrip(lstrip(s))

\* line 20: [line.strip() for line in f if line.strip()]
RECURSIVE load_terms(_)
load_terms(lines) ==
    IF lines = <<>> THEN <<>>
    ELSE (IF strip(Head(lines)) # <<>> THEN <<strip(Head(lines))>> ELSE <<>>)
         \o load_terms(Tail(lines))

\* The contents a term file can have: empty and blank lines, a bare term and
\* a term with blanks around it.
FileLines == {<<>>, <<" ">>, <<"b">>, <<" ", "b", " ">>}

FileContents == SeqsUpTo(FileLines, MaxLines)

\* ------------------------------------------------------------------ the page loop
Digit ==
    [d \in 0..9 |->
        CASE d = 0 -> "0" [] d = 1 -> "1" [] d = 2 -> "2" [] d = 3 -> "3" [] d = 4 -> "4"
          [] d = 5 -> "5" [] d = 6 -> "6" [] d = 7 -> "7" [] d = 8 -> "8" [] d = 9 -> "9"]

\* str(n) for n >= 0, as the f-string of line 71 formats the page number
RECURSIVE Decimal(_)
Decimal(n) == IF n < 10 THEN <<Digit[n]>> ELSE Decimal(n \div 10) \o <<Digit[n % 10]>>

\* line 71: f"\n\n--- Page {page_num + 1} ---\n\n", page_num the 0-based index
PageHeader(n) ==
    <<"\n", "\n", "-", "-", "-", " ", "P", "a", "g", "e", " ">>
        \o Decimal(n + 1) \o <<" ", "-", "-", "-", "\n", "\n">>

\* The header numbered with the 0-based index itself.
AppendPageZeroBased(ft, n, page_text) ==
    IF page_text # <<>> THEN ft \o PageHeader(n - 1) \o page_text ELSE ft

\* lines 69-72: one iteration of the loop, full_text after the page at the
\* 0-based index n gave page_text
AppendPage(ft, n, page_text) ==
    IF page_text # <<>> THEN ft \o PageHeader(n) \o page_text ELSE ft

\* The texts page.get_text() can return: nothing, or text holding a term.
PageTexts == {<<>>, <<"b">>}

PageSeqs == SeqsUpTo(PageTexts, MaxPages)

\* lines 98-101: the f.write calls of one output record
NumChunks == 4

\* ------------------------------------------------------------------ main
Init ==
    /\ input_dir_ok \in BOOLEAN
    /\ output_dir \in {"exists", "creatable", "uncreatable"}
    /\ terms_file \in {"ok", "missing", "unreadable"}
    /\ text = <<>>
    /\ terms = <<>>
    /\ redacted_text = <<>>
    /\ origin = <<>>
    /\ rpc = "idle"
    /\ BatchIdle

\* sys.exit(status), or main() returning (status 0)
Exit(status) ==
    /\ pc' = "exit"
    /\ exit_status' = status

\* text_redact_pdf returns to line 149: its locals are gone, the result is
\* counted and the loop moves on to the next document
Return(ok, cause) ==
    /\ successful' = IF ok THEN successful + 1 ELSE successful
    /\ failed' = IF ok THEN failed ELSE failed + 1
    /\ stage' = [stage EXCEPT ![idx] = IF ok THEN "Written" ELSE "Failed"]
    /\ outcome' = [outcome EXCEPT ![idx] = cause]
    /\ idx' = idx + 1
    /\ pc' = "loop"
    /\ pages' = <<>>
    /\ page_num' = 0
    /\ full_text' = <<>>
    /\ is_none' = FALSE
    /\ chunks' = 0
    /\ redacted_text' = <<>>

\* A failure that ends the loop instead of moving on to the next document.
ReturnFalseHalts(cause) ==
    /\ failed' = failed + 1
    /\ successful' = successful
    /\ stage' = [stage EXCEPT ![idx] = "Failed"]
    /\ outcome' = [outcome EXCEPT ![idx] = cause]
    /\ idx' = pdf_files + 1
    /\ pc' = "loop"
    /\ pages' = <<>>
    /\ page_num' = 0
    /\ full_text' = <<>>
    /\ is_none' = FALSE
    /\ chunks' = 0
    /\ redacted_text' = <<>>

\* lines 106-107 and 109-111, then lines 151-152
ReturnFalse(cause) == Return(FALSE, cause)

\* lines 103-104, then lines 149-150
ReturnTrue == Return(TRUE, "success")

\* lines 30-44, called at line 118
validate_directories ==
    /\ pc = "start"
    /\ IF ~input_dir_ok
       THEN Exit(1) /\ UNCHANGED output_dir
       ELSE IF output_dir = "uncreatable"
            THEN Exit(1) /\ UNCHANGED output_dir
            ELSE /\ output_dir' = "exists"
                 /\ pc' = "load_terms"
                 /\ UNCHANGED exit_status
    /\ UNCHANGED <<rvars, input_dir_ok, terms_file, pdf_files, idx, successful, failed,
                   docvars, worldvars, stage, outcome>>

\* load_terms that logs the error and returns no terms instead of exiting.
LoadTermsSwallowsError ==
    /\ pc = "load_terms"
    /\ IF terms_file # "ok"
       THEN terms' = <<>>
       ELSE \E lines \in FileContents : terms' = load_terms(lines)
    /\ pc' = "check_terms"
    /\ UNCHANGED <<text, redacted_text, rpc, origin, envvars, exit_status, pdf_files, idx,
                   successful, failed, docvars, worldvars, stage, outcome>>

\* lines 16-28, called at line 119
LoadTerms ==
    /\ pc = "load_terms"
    /\ IF terms_file # "ok"
       THEN Exit(1) /\ UNCHANGED terms
       ELSE /\ \E lines \in FileContents : terms' = load_terms(lines)
            /\ pc' = "check_terms"
            /\ UNCHANGED exit_status
    /\ UNCHANGED <<text, redacted_text, rpc, origin, envvars, pdf_files, idx, successful,
                   failed, docvars, worldvars, stage, outcome>>

\* lines 121-123
CheckTerms ==
    /\ pc = "check_terms"
    /\ IF terms = <<>> THEN Exit(0) ELSE pc' = "glob" /\ UNCHANGED exit_status
    /\ UNCHANGED <<rvars, envvars, pdf_files, idx, successful, failed, docvars,
                   worldvars, stage, outcome>>

\* lines 129-140
Glob ==
    /\ pc = "glob"
    /\ \E n \in 0..MaxDocs :
          /\ pdf_files' = n
          /\ IF n = 0
             THEN Exit(0) /\ UNCHANGED <<idx, stage>>
             ELSE /\ idx' = 1
                  /\ stage' = [d \in Docs |-> IF d <= n THEN "Discovered" ELSE "None"]
                  /\ pc' = "loop"
                  /\ UNCHANGED exit_status
    /\ successful' = 0
    /\ failed' = 0
    /\ UNCHANGED <<rvars, envvars, docvars, worldvars, outcome>>

\* line 142: the next document, or lines 154-155 and the end of main
LoopNext ==
    /\ pc = "loop"
    /\ IF idx > pdf_files
       THEN Exit(0)
       ELSE pc' = "open" /\ UNCHANGED exit_status
    /\ UNCHANGED <<rvars, envvars, pdf_files, idx, successful, failed, docvars,
                   worldvars, stage, outcome>>

\* line 64: fitz.open(filepath); lines 81-83 when it raises
OpenPdf ==
    /\ pc = "open"
    /\ \/ /\ is_none' = TRUE
          /\ pc' = "check"
          /\ UNCHANGED <<pages, page_num, full_text, pdf_handle>>
       \/ /\ pdf_handle' = [pdf_handle EXCEPT ![idx] = "open"]
          /\ pages' \in PageSeqs
          /\ page_num' = 0
          /\ full_text' = <<>>
          /\ is_none' = FALSE
          /\ pc' = "pages"
    /\ UNCHANGED <<rvars, envvars, exit_status, pdf_files, idx, successful, failed,
                   chunks, out_handle, out_file, stage, outcome>>

\* lines 68-72: one page; lines 81-83 when page.get_text() raises.  No
\* close() runs on that path: whether the handle is released is left to the
\* runtime's finalisation of the abandoned object.
GetText ==
    /\ pc = "pages"
    /\ page_num < Len(pages)
    /\ \/ /\ is_none' = TRUE
          /\ pc' = "check"
          /\ \E h \in {"open", "closed"} : pdf_handle' = [pdf_handle EXCEPT ![idx] = h]
          /\ UNCHANGED <<page_num, full_text>>
       \/ /\ full_text' = AppendPage(full_text, page_num, pages[page_num + 1])
          /\ page_num' = page_num + 1
          /\ UNCHANGED <<is_none, pc, pdf_handle>>
    /\ UNCHANGED <<rvars, envvars, exit_status, pdf_files, idx, successful, failed,
                   pages, chunks, out_handle, out_file, stage, outcome>>

\* line 74
CloseDoc ==
    /\ pc = "pages"
    /\ page_num = Len(pages)
    /\ pdf_handle' = [pdf_handle EXCEPT ![idx] = "closed"]
    /\ stage' = [stage EXCEPT ![idx] = "Extracted"]
    /\ pc' = "redact"
    /\ UNCHANGED <<rvars, envvars, exit_status, pdf_files, idx, successful, failed,
                   docvars, out_handle, out_file, outcome>>

\* lines 77-79
RedactDoc ==
    /\ pc = "redact"
    /\ redacted_text' = redact_text(full_text, terms, case_sensitive)
    /\ stage' = [stage EXCEPT ![idx] = "Redacted"]
    /\ pc' = "check"
    /\ UNCHANGED <<text, terms, rpc, origin, envvars, exit_status, pdf_files, idx,
                   successful, failed, docvars, worldvars, outcome>>

\* Line 94 testing only for None: an empty text goes on to be written.
CheckTextNoBlankCheck ==
    /\ pc = "check"
    /\ IF ~is_none
       THEN /\ pc' = "write_open"
            /\ UNCHANGED <<idx, successful, failed, stage, outcome, docvars, redacted_text>>
       ELSE ReturnFalse("extraction_error")
    /\ UNCHANGED <<text, terms, rpc, origin, envvars, exit_status, pdf_files, worldvars>>

\* line 94; lines 106-107 when the text is None, empty or blank
CheckText ==
    /\ pc = "check"
    /\ IF ~is_none /\ redacted_text # <<>> /\ strip(redacted_text) # <<>>
       THEN /\ pc' = "write_open"
            /\ UNCHANGED <<idx, successful, failed, stage, outcome, docvars, redacted_text>>
       ELSE ReturnFalse(IF is_none THEN "extraction_error" ELSE "blank")
    /\ UNCHANGED <<text, terms, rpc, origin, envvars, exit_status, pdf_files, worldvars>>

\* lines 96-97: open(txt_output, 'w'); lines 109-111 when it raises
OpenOutput ==
    /\ pc = "write_open"
    /\ \/ /\ ReturnFalse("write_error")
          /\ UNCHANGED <<out_handle, out_file>>
       \/ /\ out_file' = [out_file EXCEPT ![idx] = 0]
          /\ out_handle' = [out_handle EXCEPT ![idx] = "open"]
          /\ chunks' = 0
          /\ pc' = "write"
          /\ UNCHANGED <<idx, successful, failed, stage, outcome, pages, page_num,
                         full_text, is_none, redacted_text>>
    /\ UNCHANGED <<text, terms, rpc, origin, envvars, exit_status, pdf_files, pdf_handle>>

\* lines 98-101: one f.write; when it raises, the with statement closes the
\* file and lines 109-111 return False
WriteChunk ==
    /\ pc = "write"
    /\ chunks < NumChunks
    /\ \/ /\ chunks' = chunks + 1
          /\ out_file' = [out_file EXCEPT ![idx] = chunks + 1]
          /\ UNCHANGED <<pc, idx, successful, failed, stage, outcome, out_handle, pages,
                         page_num, full_text, is_none, redacted_text>>
       \/ /\ out_handle' = [out_handle EXCEPT ![idx] = "closed"]
          /\ ReturnFalse("write_error")
          /\ UNCHANGED out_file
    /\ UNCHANGED <<text, terms, rpc, origin, envvars, exit_status, pdf_files, pdf_handle>>

\* the end of the with statement of line 97, then lines 103-104 and 149-150;
\* lines 109-111 when closing (the final flush) raises
CloseOutput ==
    /\ pc = "write"
    /\ chunks = NumChunks
    /\ out_handle' = [out_handle EXCEPT ![idx] = "closed"]
    /\ \/ ReturnTrue
       \/ ReturnFalse("write_error")
    /\ UNCHANGED <<text, terms, rpc, origin, envvars, exit_status, pdf_files, pdf_handle,
                   out_file>>

Next ==
    \/ validate_directories
    \/ LoadTerms
    \/ CheckTerms
    \/ Glob
    \/ LoopNext
    \/ OpenPdf
    \/ GetText
    \/ CloseDoc
    \/ RedactDoc
    \/ CheckText
    \/ OpenOutput
    \/ WriteChunk
    \/ CloseOutput

Spec == Init /\ [][Next]_vars

\* ------------------------------------------------------------------ properties of the batch
Failures == {"extraction_error", "blank", "write_error"}

Found == 1..pdf_files

Count(S) == Cardinality(S)

\* C5: every discovered document is attempted and counted exactly once, as
\* successful or as failed (failed for an extraction error, a blank result or
\* a write error), and a failure does not stop the loop: at the end
\* successful + failed is the number of discovered documents.
C5_EveryDocumentCountedOnce ==
    pdf_files > 0 =>
        /\ idx \in 1..(pdf_files + 1)
        /\ \A d \in Found : (d < idx) <=> (outcome[d] # "pending")
        /\ successful = Count({d \in Found : outcome[d] = "success"})
        /\ failed = Count({d \in Found : outcome[d] \in Failures})
        /\ successful + failed = idx - 1
        /\ \A d \in Found :
              /\ outcome[d] = "success" => out_file[d] = NumChunks
              /\ outcome[d] \in {"extraction_error", "blank"} => out_file[d] = -1
        /\ pc = "exit" => successful + failed = pdf_files

C5_Witness ==
    /\ pc = "exit"
    /\ pdf_files = 2
    /\ outcome[1] = "extraction_error"
    /\ outcome[2] = "success"
    /\ successful = 1
    /\ failed = 1

\* C6: a document counted as failed, for any cause, has no output file.
C6_NoOutputFileForFailedDocument ==
    \A d \in Docs : outcome[d] \in Failures => out_file[d] = -1

FatalConfiguration ==
    \/ ~input_dir_ok
    \/ output_dir = "uncreatable"
    \/ terms_file # "ok"

\* C7: the run ends with status 1 exactly when the input directory is
\* invalid, the output directory cannot be created or the term file is
\* missing or unreadable, and then no document was opened and no output file
\* written; in every other case it ends with status 0.
C7_FatalErrorsAbortBeforeAnyDocument ==
    /\ pc # "exit" => exit_status = -1
    /\ pc = "exit" =>
          /\ exit_status \in {0, 1}
          /\ exit_status = 1 <=> FatalConfiguration
          /\ exit_status = 1 =>
                /\ pdf_files = 0
                /\ \A d \in Docs :
                      pdf_handle[d] = "none" /\ out_handle[d] = "none" /\ out_file[d] = -1

C7_Witness ==
    /\ pc = "exit"
    /\ exit_status = 1
    /\ input_dir_ok
    /\ output_dir = "exists"
    /\ terms_file = "unreadable"

\* The boundary marker of the page at 1-based position n.
BoundaryMarker(n) ==
    <<"\n", "\n">> \o <<"-", "-", "-">> \o <<" ", "P", "a", "g", "e", " ">> \o Decimal(n)
        \o <<" ">> \o <<"-", "-", "-">> \o <<"\n", "\n">>

\* The document text of the pages at positions n.. of ps: for each non-empty
\* page, its boundary marker and its text.
RECURSIVE DocumentTextFrom(_, _)
DocumentTextFrom(ps, n) ==
    IF n > Len(ps) THEN <<>>
    ELSE (IF ps[n] = <<>> THEN <<>> ELSE BoundaryMarker(n) \o ps[n])
         \o DocumentTextFrom(ps, n + 1)

\* C8: the document text is, in page order, the boundary marker and the text
\* of exactly the non-empty pages, each numbered by its position in the
\* document; it is empty when all pages are empty.
C8_DocumentText ==
    /\ pc = "pages" => full_text = DocumentTextFrom(SubSeq(pages, 1, page_num), 1)
    /\ pc = "redact" =>
          /\ full_text = DocumentTextFrom(pages, 1)
          /\ (\A n \in 1..Len(pages) : pages[n] = <<>>) => full_text = <<>>

C8_Witness ==
    /\ pc = "redact"
    /\ pages = << <<>>, <<"b">> >>
    /\ full_text # <<>>

\* C9: when the loop starts the next document or the batch ends, the PDF
\* handle and the output-file handle of every earlier document are closed.
C9_HandlesReleasedBeforeNextDocument ==
    \A d \in Docs : d < idx => pdf_handle[d] # "open" /\ out_handle[d] # "open"

Terminal == {"Written", "Failed"}

StageSteps ==
    {<<"None", "Discovered">>, <<"Discovered", "Extracted">>, <<"Extracted", "Redacted">>,
     <<"Redacted", "Written">>, <<"Discovered", "Failed">>, <<"Extracted", "Failed">>,
     <<"Redacted", "Failed">>}

StageInv ==
    /\ \A d \in Found :
          /\ d < idx => stage[d] \in Terminal
          /\ d > idx => stage[d] = "Discovered" /\ pdf_handle[d] = "none" /\ out_file[d] = -1
          /\ stage[d] \in {"Extracted", "Redacted"} => d = idx
          /\ stage[d] = "Written" => out_file[d] = NumChunks /\ outcome[d] = "success"
    /\ pc \in {"write_open", "write"} =>
          /\ stage[idx] = "Redacted"
          /\ ~is_none
          /\ strip(redacted_text) # <<>>
          /\ pdf_handle[idx] = "closed"
    /\ pc \in {"open", "pages"} => stage[idx] = "Discovered"
    /\ pc = "redact" => stage[idx] = "Extracted"
    /\ (pc = "exit" /\ (terms = <<>> \/ pdf_files = 0)) =>
          \A d \in Docs : stage[d] = "None" /\ pdf_handle[d] = "none" /\ out_file[d] = -1

StageStep ==
    \A d \in Docs :
        stage'[d] # stage[d] =>
            /\ <<stage[d], stage'[d]>> \in StageSteps
            /\ stage[d] # "None" => d = idx

\* C10: documents are processed one at a time in discovery order, each through
\* Discovered, Extracted, Redacted, Written in that order or to Failed;
\* Written and Failed are final; the write happens only after redaction gave
\* non-blank text; a run with no terms or no documents enters no stage.
C10_StagesInOrder == []StageInv /\ [][StageStep]_vars

C10_Witness ==
    /\ pc = "write"
    /\ idx = 2
    /\ stage[1] = "Failed"
    /\ stage[2] = "Redacted"

====
